---- MODULE Spec2Model ----
(***************************************************************************)
(* The Heka framed-record decoder of moztelemetry/heka/message_parser.py:  *)
(* read_until_next, read_one_record, BacktrackableFile, unpack,            *)
(* parse_heka_message and the projection of a message into a record        *)
(* (_parse_heka_record, _add_field, _lazyjson), over byte streams built    *)
(* from a small catalogue of frames and messages built from a small        *)
(* catalogue of fields.                                                    *)
(***************************************************************************)
EXTENDS Integers, Sequences, FiniteSets, TLC

(* ---------------------------------------------------------------------- *)
(* Bounds of the model                                                     *)
(* ---------------------------------------------------------------------- *)
\* longest stream, counted in items (frames or single garbage bytes)
MaxItems == 4
\* longest stream of the damaged streams, counted in items
MaxEdge == 3
\* most items of a stream that are not plain well-formed frames
MaxOdd == 2
\* most fields of a message handed to _parse_heka_record
MaxFields == 2
\* most read accesses to one lazy value
MaxReads == 2

(* ---------------------------------------------------------------------- *)
(* Wire format                                                             *)
(* ---------------------------------------------------------------------- *)
_record_separator == 30
unit_separator_byte == 31

\* protobuf keys (field number * 8 + wire type) the two schemas know:
\* Header.message_length is field 1 and Message.timestamp field 2, both
\* one-byte varints; Message.payload is field 6, length-delimited
MessageLengthKey == 1 * 8 + 0
TimestampKey == 2 * 8 + 0
PayloadKey == 6 * 8 + 2
\* a byte that is neither separator: used as garbage and as the wrong byte
GarbageByte == 0 * 1
\* a key with wire type 4 (end group) and field number 0: never decodes
BadKey == 0 * 8 + 4
\* the byte of the character "{"
OpenBrace == 120 + 3

Kinds == {"plain", "snappy", "corrupt", "badusep", "junk", "badjson"}

Min(a, b) == IF a < b THEN a ELSE b

\* s[from+1 .. from+n], cut at the end of s (python's s[from:from+n])
Slice(s, from, n) == SubSeq(s, from + 1, Min(from + n, Len(s)))

\* F of the value of x, x being worked out once
Bind(x, F(_)) == CHOOSE y \in {F(v) : v \in {x}} : TRUE

\* snappy.compress of a short body: the uncompressed length, one literal
\* element (tag (len-1)*4), the bytes
SnappyCompress(b) == <<Len(b), (Len(b) - 1) * 4>> \o b

HeaderBytes(n) == <<MessageLengthKey, n>>

MessageBytes(i) == <<TimestampKey, i>>

\* a payload of one "{": not a JSON document
PayloadBytes == <<PayloadKey, 1, OpenBrace>>

\* the bytes of item number i of a stream
ItemBytes(kind, i) ==
    CASE kind = "plain" ->
           <<_record_separator, 2>> \o HeaderBytes(2)
              \o <<unit_separator_byte>> \o MessageBytes(i)
      [] kind = "snappy" ->
           <<_record_separator, 2>> \o HeaderBytes(4)
              \o <<unit_separator_byte>> \o SnappyCompress(MessageBytes(i))
      [] kind = "corrupt" ->
           <<_record_separator, 2>> \o HeaderBytes(2)
              \o <<unit_separator_byte>> \o <<BadKey, i>>
      [] kind = "badusep" ->
           <<_record_separator, 2>> \o HeaderBytes(2)
              \o <<GarbageByte>> \o MessageBytes(i)
      [] kind = "junk" -> <<GarbageByte>>
      [] kind = "badjson" ->
           <<_record_separator, 2>> \o HeaderBytes(5)
              \o <<unit_separator_byte>> \o MessageBytes(i) \o PayloadBytes
      \* a frame whose header is empty, and its body with it
      [] kind = "nohdr" -> <<_record_separator, 0, unit_separator_byte>>
      \* one more record separator in front of what follows
      [] kind = "sep" -> <<_record_separator>>
      \* a frame that stops behind its header: what follows stands where its
      \* unit separator is expected
      [] kind = "nousep" -> <<_record_separator, 2>> \o HeaderBytes(2)

RECURSIVE StreamOf(_, _)
StreamOf(its, n) ==
    IF n = 0 THEN <<>> ELSE StreamOf(its, n - 1) \o ItemBytes(its[n], n)


(* ---------------------------------------------------------------------- *)
(* State                                                                   *)
(* ---------------------------------------------------------------------- *)
VARIABLES
    items,          \* how the stream was built: the kind of each item
    stream,         \* the bytes of the underlying stream
    fault,          \* the offset from which the stream's read raises, and what
    api,            \* the entry point called: "unpack", "parse_heka_message"
                    \* or "_parse_heka_record"
    opts,           \* unpack's arguments raw, verbose, strict, backtrack, try_snappy
    record,         \* the record handed to _parse_heka_record when called alone
    fin,            \* the file object handed to unpack
    record_count,   \* unpack's local record_count
    total_bytes,    \* unpack's local total_bytes
    pc,             \* unpack's state: "Reading", "Done" or "Failed"; that of a
                    \* lone _parse_heka_record: "Projecting", "Projected", "Raised"
    exc,            \* the exception that reached the caller ("" for none)
    out,            \* what unpack has yielded: (r, total_bytes) pairs
    records,        \* the records yielded by parse_heka_message or returned by
                    \* _parse_heka_record
    heap,           \* the lazy wrappers _lazyjson has made
    reads,          \* per wrapper, the read accesses made and what they returned
    log             \* the lines printed so far

\* what a run is given and never changes
inputs == <<items, stream, fault, api, opts, record>>

vars == <<inputs, fin, record_count, total_bytes, pc, exc, out, records, heap,
          reads, log>>

(* ---------------------------------------------------------------------- *)
(* Text: a python string is the sequence of its characters                 *)
(* ---------------------------------------------------------------------- *)
Digits == <<"0", "1", "2", "3", "4", "5", "6", "7", "8", "9">>

IsDigit(c) == \E n \in 1..Len(Digits) : Digits[n] = c

DigitValue(c) == (CHOOSE n \in 1..Len(Digits) : Digits[n] = c) - 1

\* content.startswith(c)
StartsWith(text, c) == Len(text) >= 1 /\ text[1] = c

\* c in content, for any c of cs
Contains(text, cs) == \E n \in 1..Len(text) : text[n] \in cs

\* the position of the first sep in text, 0 when there is none
FirstIndex(text, sep) ==
    LET hits == {n \in 1..Len(text) : text[n] = sep}
    IN  IF hits = {} THEN 0 ELSE CHOOSE n \in hits : \A m \in hits : n <= m

\* text.split(sep)
RECURSIVE Split(_, _)
Split(text, sep) ==
    IF FirstIndex(text, sep) = 0 THEN <<text>>
    ELSE <<SubSeq(text, 1, FirstIndex(text, sep) - 1)>>
            \o Split(SubSeq(text, FirstIndex(text, sep) + 1, Len(text)), sep)

\* the character of a byte of a protobuf string, for the bytes of the catalogue
Chr(b) == IF b = OpenBrace THEN "{" ELSE "?"

RECURSIVE Decode(_)
Decode(b) == IF Len(b) = 0 THEN <<>> ELSE <<Chr(b[1])>> \o Decode(Tail(b))

\* int(content), for the texts made of decimal digits
IsInt(text) == Len(text) >= 1 /\ \A n \in 1..Len(text) : IsDigit(text[n])

RECURSIVE IntValue(_)
IntValue(text) ==
    IF Len(text) = 0 THEN 0
    ELSE 10 * IntValue(SubSeq(text, 1, Len(text) - 1)) + DigitValue(text[Len(text)])

\* float(content), for the texts digits "." digits
IsFloat(text) ==
    /\ FirstIndex(text, ".") > 0
    /\ IsInt(SubSeq(text, 1, FirstIndex(text, ".") - 1))
    /\ IsInt(SubSeq(text, FirstIndex(text, ".") + 1, Len(text)))

(* ---------------------------------------------------------------------- *)
(* Values of a record: each carries its python type as its one field       *)
(* ---------------------------------------------------------------------- *)
PyInt(n) == [int |-> n]
PyStr(text) == [str |-> text]
PyFloat(text) == [float |-> text]
PyDict(m) == [map |-> m]
PyList(l) == [list |-> l]
\* a lazy wrapper, by its place in the heap
PyRef(id) == [ref |-> id]

IsA(v, type) == type \in DOMAIN v

\* container[key] = v
Put(m, key, v) == (key :> v) @@ m

\* json.loads, for the documents of the catalogue: a number, {}, an object
\* of one member with a one-character key and a one-digit value, [] and a
\* list of one digit
JsonLoads(text) ==
    CASE IsInt(text) -> [ok |-> TRUE, value |-> PyInt(IntValue(text))]
      [] text = <<"{", "}">> -> [ok |-> TRUE, value |-> PyDict(<<>>)]
      [] text = <<"[", "]">> -> [ok |-> TRUE, value |-> PyList(<<>>)]
      [] /\ Len(text) = 7
         /\ SubSeq(text, 1, 2) = <<"{", "\"">>
         /\ text[3] \notin {"\"", "\\"}
         /\ SubSeq(text, 4, 5) = <<"\"", ":">>
         /\ IsDigit(text[6])
         /\ text[7] = "}" ->
           [ok |-> TRUE, value |-> PyDict(<<text[3]>> :> PyInt(DigitValue(text[6])))]
      [] /\ Len(text) = 3
         /\ text[1] = "["
         /\ IsDigit(text[2])
         /\ text[3] = "]" ->
           [ok |-> TRUE, value |-> PyList(<<PyInt(DigitValue(text[2]))>>)]
      [] OTHER -> [ok |-> FALSE, value |-> PyInt(0)]

(* ---------------------------------------------------------------------- *)
(* protobuf and snappy, restricted to one-byte varint fields, one short    *)
(* string field and single-literal snappy blocks                           *)
(* ---------------------------------------------------------------------- *)
\* the bytes one field takes: key and varint, or key, length and bytes
FieldLength(b) == IF b[1] = PayloadKey THEN 2 + b[2] ELSE 2

RECURSIVE ProtoOK(_)
ProtoOK(b) ==
    \/ Len(b) = 0
    \/ /\ Len(b) >= 2
       /\ b[1] \in {MessageLengthKey, TimestampKey, PayloadKey}
       /\ b[2] < 128
       /\ Len(b) >= FieldLength(b)
       /\ ProtoOK(SubSeq(b, FieldLength(b) + 1, Len(b)))

\* the value of the last occurrence of the varint key, default when absent
RECURSIVE ProtoValue(_, _, _)
ProtoValue(b, key, default) ==
    IF Len(b) < 2 THEN default
    ELSE ProtoValue(SubSeq(b, FieldLength(b) + 1, Len(b)), key,
                    IF b[1] = key THEN b[2] ELSE default)

\* the bytes of the last occurrence of the string key, default when absent
RECURSIVE ProtoString(_, _, _)
ProtoString(b, key, default) ==
    IF Len(b) < 2 THEN default
    ELSE ProtoString(SubSeq(b, FieldLength(b) + 1, Len(b)), key,
                     IF b[1] = key THEN SubSeq(b, 3, FieldLength(b)) ELSE default)

\* Header.ParseFromString
HeaderParse(header_raw) ==
    [ok |-> ProtoOK(header_raw),
     header |-> [message_length |-> ProtoValue(header_raw, MessageLengthKey, 0)]]

\* a Message: the members _parse_heka_record reads
Message(timestamp, type, hostname, payload, fields) ==
    [timestamp |-> timestamp, type |-> type, hostname |-> hostname,
     payload |-> payload, fields |-> fields]

\* Message.ParseFromString
MessageParse(message_raw) ==
    [ok |-> ProtoOK(message_raw),
     message |-> Message(ProtoValue(message_raw, TimestampKey, 0), <<>>, <<>>,
                         Decode(ProtoString(message_raw, PayloadKey, <<>>)), <<>>)]

\* snappy.decompress: the empty block, or one literal of the stated length
SnappyDecompress(b) ==
    IF b = <<0>> THEN [ok |-> TRUE, data |-> <<>>]
    ELSE IF /\ Len(b) >= 2
            /\ b[1] >= 1
            /\ b[2] = (b[1] - 1) * 4
            /\ Len(b) = 2 + b[1]
         THEN [ok |-> TRUE, data |-> SubSeq(b, 3, Len(b))]
         ELSE [ok |-> FALSE, data |-> <<>>]

(* ---------------------------------------------------------------------- *)
(* The file object: a plain stream, or a BacktrackableFile around it       *)
(* ---------------------------------------------------------------------- *)
NewFile(wrapped) ==
    [wrapped |-> wrapped, pos |-> 0, buf |-> <<>>, bpos |-> 0, closed |-> 0]

\* a stream whose read never raises
NoFault == [at |-> 0 - 1, kind |-> ""]

\* the read needs a byte the stream raises at
Faulty(f, size) == fault.at >= 0 /\ size > 0 /\ f.pos + size > fault.at

\* self._stream.read(size)
StreamRead(f, size) ==
    IF Faulty(f, size)
    THEN [exc |-> fault.kind, data |-> <<>>, f |-> f]
    ELSE [exc |-> "", data |-> Slice(stream, f.pos, size),
          f |-> [f EXCEPT !.pos = f.pos + Len(Slice(stream, f.pos, size))]]

\* BacktrackableFile.read once the stream was read: what came from the stream
\* is written to the buffer at its position, which is its end
BufferWrite(buffer_data, sr) ==
    IF sr.exc # "" THEN sr
    ELSE [exc |-> "", data |-> buffer_data \o sr.data,
          f |-> [sr.f EXCEPT !.buf = SubSeq(sr.f.buf, 1, sr.f.bpos) \o sr.data
                                      \o SubSeq(sr.f.buf, sr.f.bpos + Len(sr.data) + 1,
                                                Len(sr.f.buf)),
                             !.bpos = sr.f.bpos + Len(sr.data)]]

\* BacktrackableFile.read once the replay buffer was read
BufferRead(f, buffer_data, size) ==
    IF size - Len(buffer_data) = 0
    THEN [exc |-> "", data |-> buffer_data,
          f |-> [f EXCEPT !.bpos = f.bpos + Len(buffer_data)]]
    ELSE Bind(StreamRead([f EXCEPT !.bpos = f.bpos + Len(buffer_data)],
                         size - Len(buffer_data)),
              LAMBDA sr : BufferWrite(buffer_data, sr))

\* BacktrackableFile.read: first from the replay buffer, the rest from the
\* stream
BacktrackableRead(f, size) ==
    Bind(Slice(f.buf, f.bpos, size), LAMBDA buffer_data : BufferRead(f, buffer_data, size))

FileRead(f, size) ==
    IF f.wrapped THEN BacktrackableRead(f, size) ELSE StreamRead(f, size)

\* buf.find(chr(_record_separator), 1), as a 1-based position, 0 for -1
FindSeparatorFrom1(buf) ==
    LET hits == {i \in 2..Len(buf) : buf[i] = _record_separator}
    IN  IF hits = {} THEN 0 ELSE CHOOSE i \in hits : \A j \in hits : i <= j

\* the same keeping the whole buffer when no later separator is in it
BacktrackKeeping(f) ==
    LET index == FindSeparatorFrom1(f.buf)
    IN  [f EXCEPT !.buf = IF index > 0 THEN SubSeq(f.buf, index, Len(f.buf)) ELSE f.buf,
                  !.bpos = 0]

\* BacktrackableFile.backtrack
Backtrack(f) ==
    LET index == FindSeparatorFrom1(f.buf)
    IN  [f EXCEPT !.buf = IF index > 0 THEN SubSeq(f.buf, index, Len(f.buf)) ELSE <<>>,
                  !.bpos = 0]

\* a close that is left out
CloseLeftOut(f) == f

\* fin.close()
Close(f) == [f EXCEPT !.closed = f.closed + 1]

(* ---------------------------------------------------------------------- *)
(* read_until_next and read_one_record                                     *)
(* ---------------------------------------------------------------------- *)
\* None and a present value, for r.message, r.error and the returned r
None == <<>>
Some(x) == <<x>>

UnpackedRecord(raw_record, header, message, error) ==
    [raw |-> raw_record, header |-> header, message |-> message, error |-> error]

\* what a call of read_one_record did: the exception it raised ("" when it
\* returned), the r and size it returned, the file afterwards, what it printed
Returned(r, size, f, printed) ==
    [exc |-> "", r |-> r, size |-> size, f |-> f, log |-> printed]

Raised(e, f, printed) ==
    [exc |-> e, r |-> None, size |-> 0, f |-> f, log |-> printed]

Line(what, n) == [what |-> what, n |-> n]

RECURSIVE ReadUntilNext(_, _, _)
\* the same with "bytes_skipped += 1" left out
ScanByteUncounted(c, separator, bytes_skipped) ==
    IF c.exc # ""
    THEN [exc |-> c.exc, skipped |-> bytes_skipped, eof |-> FALSE, f |-> c.f]
    ELSE IF c.data = <<>>
    THEN [exc |-> "", skipped |-> bytes_skipped, eof |-> TRUE, f |-> c.f]
    ELSE IF c.data[1] # separator
         THEN ReadUntilNext(c.f, separator, bytes_skipped)
         ELSE [exc |-> "", skipped |-> bytes_skipped, eof |-> FALSE, f |-> c.f]

\* one pass of the loop of read_until_next, c being the byte read
ScanByte(c, separator, bytes_skipped) ==
    IF c.exc # ""
    THEN [exc |-> c.exc, skipped |-> bytes_skipped, eof |-> FALSE, f |-> c.f]
    ELSE IF c.data = <<>>
    THEN [exc |-> "", skipped |-> bytes_skipped, eof |-> TRUE, f |-> c.f]
    ELSE IF c.data[1] # separator
         THEN ReadUntilNext(c.f, separator, bytes_skipped + 1)
         ELSE [exc |-> "", skipped |-> bytes_skipped, eof |-> FALSE, f |-> c.f]

ReadUntilNext(f, separator, bytes_skipped) ==
    Bind(FileRead(f, 1), LAMBDA c : ScanByte(c, separator, bytes_skipped))

\* the same without the second attempt on the bytes as read
ParseBodyNoFallback(message_raw, unz, try_snappy) ==
    IF try_snappy
    THEN [ok |-> unz.ok /\ MessageParse(unz.data).ok,
          message |-> MessageParse(unz.data).message]
    ELSE MessageParse(message_raw)

\* the parse of the body: snappy first when asked to, then the bytes as read
ParseBody(message_raw, unz, try_snappy) ==
    IF try_snappy /\ unz.ok /\ MessageParse(unz.data).ok
    THEN MessageParse(unz.data)
    ELSE MessageParse(message_raw)

DecodeMessage(message_raw, try_snappy) ==
    Bind(SnappyDecompress(message_raw),
         LAMBDA unz : ParseBody(message_raw, unz, try_snappy))

\* the same taking the record separator for the unit separator
IsUnitSeparatorConfused(c) == c = unit_separator_byte \/ c # _record_separator

\* the comparison of the byte after the header with 0x1f
IsUnitSeparator(c) == c = unit_separator_byte

\* the same parsing the body also in raw mode
AssembleParsed(b, d, size, raw_record, header, printed, raw) ==
    IF d.ok
    THEN Returned(Some(UnpackedRecord(raw_record \o b.data, header,
                                      Some(d.message), None)),
                  size, b.f, printed)
    ELSE Raised("DecodeError", b.f, printed)

\* read_one_record once the body b is read: size is the count up to the body
Assemble(b, d, size, raw_record, header, printed, raw) ==
    IF raw
    THEN Returned(Some(UnpackedRecord(raw_record \o b.data, header, None, None)),
                  size, b.f, printed)
    ELSE IF d.ok
         THEN Returned(Some(UnpackedRecord(raw_record \o b.data, header,
                                           Some(d.message), None)),
                       size, b.f, printed)
         ELSE Raised("DecodeError", b.f, printed)

\* the same with "total_bytes += header.message_length" left out
BodyReadUncounted(b, total, raw_record, header, printed, raw, try_snappy) ==
    IF b.exc # "" THEN Raised(b.exc, b.f, printed)
    ELSE Bind(DecodeMessage(b.data, try_snappy),
              LAMBDA d : Assemble(b, d, total, raw_record, header, printed, raw))

BodyRead(b, total, raw_record, header, printed, raw, try_snappy) ==
    IF b.exc # "" THEN Raised(b.exc, b.f, printed)
    ELSE Bind(DecodeMessage(b.data, try_snappy),
              LAMBDA d : Assemble(b, d, total + header.message_length, raw_record,
                                  header, printed, raw))

\* read_one_record once the byte u after the header is read
UnitSeparatorRead(u, size, raw_record, header, printed, raw, strict, try_snappy) ==
    IF u.exc # "" THEN Raised(u.exc, u.f, printed)
    ELSE IF u.data = <<>> THEN Raised("IndexError", u.f, printed)
    ELSE IF ~IsUnitSeparator(u.data[1])
         THEN IF strict
              THEN Raised("ValueError", u.f, printed)
              ELSE Returned(Some(UnpackedRecord(raw_record, header, None,
                                                Some(<<size, u.data[1]>>))),
                            size, u.f, printed)
         ELSE Bind(FileRead(u.f, header.message_length),
                   LAMBDA b : BodyRead(b, size, raw_record \o u.data, header,
                                       printed, raw, try_snappy))

\* read_one_record once the header bytes h are read
HeaderRead(h, total, raw_record, header_length, printed, raw, strict, try_snappy) ==
    IF h.exc # "" THEN Raised(h.exc, h.f, printed)
    ELSE IF h.data = <<>> THEN Returned(None, total, h.f, printed)
    ELSE IF ~HeaderParse(h.data).ok THEN Raised("DecodeError", h.f, printed)
    ELSE Bind(FileRead(h.f, 1),
              LAMBDA u : UnitSeparatorRead(u, total + header_length + 1,
                                           raw_record \o h.data,
                                           HeaderParse(h.data).header,
                                           printed, raw, strict, try_snappy))

\* read_one_record once the header length byte l is read
HeaderLengthRead(l, total, printed, raw, strict, try_snappy) ==
    IF l.exc # "" THEN Raised(l.exc, l.f, printed)
    ELSE IF l.data = <<>> THEN Returned(None, total, l.f, printed)
    ELSE Bind(FileRead(l.f, l.data[1]),
              LAMBDA h : HeaderRead(h, total + 1, <<_record_separator>> \o l.data,
                                    l.data[1], printed, raw, strict, try_snappy))

\* read_one_record once read_until_next has returned s
SeparatorRead(s, raw, verbose, strict, try_snappy) ==
    IF s.exc # "" THEN Raised(s.exc, s.f, <<>>)
    ELSE IF s.eof THEN Returned(None, s.skipped, s.f, <<>>)
    ELSE IF s.skipped > 0 /\ strict THEN Raised("ValueError", s.f, <<>>)
    ELSE Bind(FileRead(s.f, 1),
              LAMBDA l : HeaderLengthRead(l, s.skipped + 1,
                                          IF s.skipped > 0 /\ verbose
                                          THEN <<Line("Skipped", s.skipped)>> ELSE <<>>,
                                          raw, strict, try_snappy))

read_one_record(f, raw, verbose, strict, try_snappy) ==
    Bind(ReadUntilNext(f, _record_separator, 0),
         LAMBDA s : SeparatorRead(s, raw, verbose, strict, try_snappy))

(* ---------------------------------------------------------------------- *)
(* _lazyjson, _add_field and _parse_heka_record                            *)
(* ---------------------------------------------------------------------- *)
\* the keys of meta
Meta == <<"m", "e", "t", "a">>
TimestampName == <<"T", "i", "m", "e", "s", "t", "a", "m", "p">>
TypeName == <<"T", "y", "p", "e">>
HostnameName == <<"H", "o", "s", "t", "n", "a", "m", "e">>

\* a wrapper as _lazyjson makes it: the content it closes over, the type it
\* derives from, no __cache__; parses and accesses count the calls of
\* json.loads and of the wrapped methods
Wrapper(content, default) ==
    [content |-> content, default |-> default, cache |-> None, parses |-> 0,
     accesses |-> 0]

\* a call of a wrapped method: json.loads when there is no __cache__ yet,
\* then the method of the cached value
Access(cell) ==
    IF cell.cache # None
    THEN [exc |-> "", value |-> cell.cache[1],
          cell |-> [cell EXCEPT !.accesses = @ + 1]]
    ELSE IF JsonLoads(cell.content).ok
         THEN [exc |-> "", value |-> JsonLoads(cell.content).value,
               cell |-> [cell EXCEPT !.cache = Some(JsonLoads(cell.content).value),
                                     !.parses = @ + 1, !.accesses = @ + 1]]
         ELSE [exc |-> "ValueError", value |-> PyInt(0),
               cell |-> [cell EXCEPT !.parses = @ + 1, !.accesses = @ + 1]]

\* _lazyjson(content), h being the wrappers made so far
LazyJson(content, h) ==
    IF ~IsA(content, "str") THEN [exc |-> "ValueError", value |-> content, heap |-> h]
    ELSE IF StartsWith(content.str, "{")
    THEN [exc |-> "", value |-> PyRef(Len(h) + 1),
          heap |-> Append(h, Wrapper(content.str, "dict"))]
    ELSE IF StartsWith(content.str, "[")
    THEN [exc |-> "", value |-> PyRef(Len(h) + 1),
          heap |-> Append(h, Wrapper(content.str, "list"))]
    ELSE IF Contains(content.str, {".", "e", "E"})
    THEN [exc |-> "",
          value |-> IF IsFloat(content.str) THEN PyFloat(content.str) ELSE content,
          heap |-> h]
    ELSE [exc |-> "",
          value |-> IF IsInt(content.str) THEN PyInt(IntValue(content.str)) ELSE content,
          heap |-> h]

\* value[0] if len(value) else ""
FirstOf(value) == IF Len(value) > 0 THEN value[1] ELSE PyStr(<<>>)

\* the end of _add_field: the value is stored under the last key
Store(container, key, lj) ==
    [exc |-> lj.exc, container |-> Put(container, key, lj.value), heap |-> lj.heap]

RECURSIVE AddField(_, _, _, _)
RECURSIVE AddFieldInto(_, _, _, _)

\* _add_field on the container of the next level once the level above has
\* been descended into: sub is what _add_field did on container[key]
Descended(container, key, sub) ==
    [exc |-> sub.exc, container |-> Put(container, key, sub.value), heap |-> sub.heap]

\* the same putting every key at the top of the record
AddFieldFlat(container, keys, value, h) ==
    IF Len(keys) = 1
    THEN Bind(LazyJson(FirstOf(value), h), LAMBDA lj : Store(container, keys[1], lj))
    ELSE AddField(container, Tail(keys), value, h)

\* _add_field(container, keys, value) on the items of a mapping
AddField(container, keys, value, h) ==
    IF Len(keys) = 1
    THEN Bind(LazyJson(FirstOf(value), h), LAMBDA lj : Store(container, keys[1], lj))
    ELSE Bind(AddFieldInto(IF keys[1] \in DOMAIN container
                           THEN container[keys[1]] ELSE PyDict(<<>>),
                           Tail(keys), value, h),
              LAMBDA sub : Descended(container, keys[1], sub))

\* what became of a mapping used as a container, sub being what _add_field
\* did on its items
Wrote(sub) == [exc |-> sub.exc, value |-> PyDict(sub.container), heap |-> sub.heap]

\* what became of a wrapper used as a container: acc is the access that
\* loaded its cache, sub what _add_field did on the cached mapping; storing
\* under the last key is the one access, descending further takes a get, a
\* __setitem__ and a __getitem__
WroteThrough(child, acc, keys, sub) ==
    [exc |-> sub.exc, value |-> child,
     heap |-> [sub.heap EXCEPT ![child.ref] =
                  [acc.cell EXCEPT !.cache = Some(PyDict(sub.container)),
                                   !.accesses = IF Len(keys) = 1 THEN @ ELSE @ + 2]]]

\* _add_field on a container that is a wrapper, acc being its first access
AddFieldThrough(child, acc, keys, value, h) ==
    IF acc.exc # ""
    THEN [exc |-> acc.exc, value |-> child, heap |-> h]
    ELSE IF IsA(acc.value, "map")
    THEN Bind(AddField(acc.value.map, keys, value, h),
              LAMBDA sub : WroteThrough(child, acc, keys, sub))
    ELSE [exc |-> IF Len(keys) = 1
                  THEN IF LazyJson(FirstOf(value), h).exc # ""
                       THEN LazyJson(FirstOf(value), h).exc ELSE "TypeError"
                  ELSE "AttributeError",
          value |-> child, heap |-> h]

\* _add_field on the value child found under a key: a mapping, a wrapper, or
\* a value that takes no items
AddFieldInto(child, keys, value, h) ==
    IF IsA(child, "map")
    THEN Bind(AddField(child.map, keys, value, h), LAMBDA sub : Wrote(sub))
    ELSE IF IsA(child, "ref")
    THEN Bind(Access(h[child.ref]),
              LAMBDA acc : AddFieldThrough(child, acc, keys, value, h))
    ELSE [exc |-> IF Len(keys) = 1
                  THEN IF LazyJson(FirstOf(value), h).exc # ""
                       THEN LazyJson(FirstOf(value), h).exc ELSE "TypeError"
                  ELSE "AttributeError",
          value |-> child, heap |-> h]

\* a Field: its name, its value_type and its repeated values
Field(name, value_type, value_string, value_bytes, value_integer, value_double, value_bool) ==
    [name |-> name, value_type |-> value_type, value_string |-> value_string,
     value_bytes |-> value_bytes, value_integer |-> value_integer,
     value_double |-> value_double, value_bool |-> value_bool]

\* the values the loop takes for a field that is not bytes-typed
ValueOf(field) ==
    CASE field.value_type = 2 -> field.value_integer
      [] field.value_type = 3 -> field.value_double
      [] field.value_type = 4 -> field.value_bool
      [] OTHER -> field.value_string

\* the same keeping what meta already holds
SetMetaKept(result, key, v) ==
    IF key \in DOMAIN result[Meta].map THEN result
    ELSE Put(result, Meta, PyDict(Put(result[Meta].map, key, v)))

\* result["meta"][key] = v
SetMeta(result, key, v) == Put(result, Meta, PyDict(Put(result[Meta].map, key, v)))

\* one pass of the loop over record.message.fields, st being the result and
\* the wrappers so far
ProjectField(st, field) ==
    IF st.exc # "" \/ field.value_type = 1 THEN st
    ELSE IF Len(Split(field.name, ".")) = 1
    THEN [st EXCEPT !.container = SetMeta(st.container, Split(field.name, ".")[1],
                                          FirstOf(ValueOf(field)))]
    ELSE AddField(st.container, Split(field.name, "."), ValueOf(field), st.heap)

RECURSIVE ProjectFields(_, _, _)
ProjectFields(st, fields, n) ==
    IF n = 0 THEN st
    ELSE Bind(ProjectFields(st, fields, n - 1),
              LAMBDA done : ProjectField(done, fields[n]))

\* the same taking a payload that does not parse for an empty one
LoadPayloadForgiving(payload) ==
    IF payload # <<>> /\ JsonLoads(payload).ok
    THEN [exc |-> IF IsA(JsonLoads(payload).value, "map") THEN "" ELSE "TypeError",
          value |-> JsonLoads(payload).value]
    ELSE [exc |-> "", value |-> PyDict(<<>>)]

\* the result before the fields: json.loads of a payload that is not empty;
\* result["meta"] = ... on anything but a mapping is a TypeError
LoadPayload(payload) ==
    IF payload # <<>>
    THEN IF JsonLoads(payload).ok
         THEN [exc |-> IF IsA(JsonLoads(payload).value, "map") THEN "" ELSE "TypeError",
               value |-> JsonLoads(payload).value]
         ELSE [exc |-> "ValueError", value |-> PyDict(<<>>)]
    ELSE [exc |-> "", value |-> PyDict(<<>>)]

MetaOf(message) ==
    PyDict(TimestampName :> PyInt(message.timestamp)
        @@ TypeName :> PyStr(message.type)
        @@ HostnameName :> PyStr(message.hostname))

\* _parse_heka_record once the payload is loaded
Projected(message, loaded, h) ==
    IF loaded.exc # ""
    THEN [exc |-> loaded.exc, container |-> <<>>, heap |-> h]
    ELSE ProjectFields([exc |-> "", container |-> Put(loaded.value.map, Meta, MetaOf(message)),
                        heap |-> h],
                       message.fields, Len(message.fields))

\* _parse_heka_record(r), h being the wrappers made so far:
\* record.message.payload on a record without a message is an AttributeError
ParseHekaRecord(r, h) ==
    IF r.message = None
    THEN [exc |-> "AttributeError", container |-> <<>>, heap |-> h]
    ELSE Bind(LoadPayload(r.message[1].payload),
              LAMBDA loaded : Projected(r.message[1], loaded, h))

(* ---------------------------------------------------------------------- *)
(* unpack and parse_heka_message                                           *)
(* ---------------------------------------------------------------------- *)
\* unpack's default arguments, which parse_heka_message runs it with
Defaults ==
    [raw |-> FALSE, verbose |-> FALSE, strict |-> FALSE, backtrack |-> FALSE,
     try_snappy |-> TRUE]

Options ==
    [raw : BOOLEAN, verbose : BOOLEAN, strict : BOOLEAN, backtrack : BOOLEAN,
     try_snappy : BOOLEAN]

Odd(its) == Cardinality({i \in 1..Len(its) : its[i] # "plain"})

\* five frames of which the third is of any kind
Scenario == {<<"plain", "plain", k, "plain", "plain">> : k \in Kinds}

Streams ==
    {its \in UNION {[1..n -> Kinds] : n \in 0..MaxItems} : Odd(its) <= MaxOdd}
        \cup Scenario

\* the record of a call without one
NoRecord == UnpackedRecord(<<>>, [message_length |-> 0], None, None)

\* unpack before its loop. backtrack=True is given a BacktrackableFile; the
\* other calls a plain file
Start ==
    /\ record = NoRecord
    /\ fin = NewFile(opts.backtrack)
    /\ record_count = 0
    /\ total_bytes = 0
    /\ pc = "Reading"
    /\ exc = ""
    /\ out = <<>>
    /\ records = <<>>
    /\ heap = <<>>
    /\ reads = <<>>
    /\ log = <<>>

Init ==
    /\ items \in Streams
    /\ stream = StreamOf(items, Len(items))
    /\ fault = NoFault
    /\ api \in {"unpack", "parse_heka_message"}
    /\ opts \in IF api = "unpack" THEN Options ELSE {Defaults}
    /\ Start

\* the loop of unpack is at its top, and nothing has reached the caller
Running == pc = "Reading" /\ exc = ""

\* the call of read_one_record of this iteration
Res == read_one_record(fin, opts.raw, opts.verbose, opts.strict, opts.try_snappy)

\* "print e" of the except clause
PrintedException(e) == IF opts.verbose THEN <<Line(e, 0)>> ELSE <<>>

\* the same without looking at the backtrack argument
BacktracksUnasked(e) == e = "DecodeError"

\* the same without looking at the type of the exception
BacktracksAnyError(e) == opts.backtrack

\* the except clause backtracks and retries
Backtracks(e) == opts.backtrack /\ e = "DecodeError"

\* the except clause of parse_heka_message
Caught(e) == api = "parse_heka_message" /\ e = "SSLError"

\* strict: close the file and raise again
UnpackRaise ==
    /\ Running
    /\ \E res \in {Res} :
        /\ res.exc # ""
        /\ opts.strict
        /\ fin' = Close(res.f)
        /\ pc' = "Failed"
        /\ exc' = IF Caught(res.exc) THEN "" ELSE res.exc
        /\ log' = log \o res.log
    /\ UNCHANGED <<inputs, record_count, total_bytes, out, records, heap, reads>>

\* fin.backtrack(); continue (an AttributeError on a file that has no backtrack)
UnpackBacktrack ==
    /\ Running
    /\ \E res \in {Res} :
        /\ res.exc # ""
        /\ ~opts.strict
        /\ Backtracks(res.exc)
        /\ log' = log \o res.log \o PrintedException(res.exc)
        /\ IF res.f.wrapped
           THEN fin' = Backtrack(res.f) /\ UNCHANGED <<pc, exc>>
           ELSE fin' = res.f /\ pc' = "Failed" /\ exc' = "AttributeError"
    /\ UNCHANGED <<inputs, record_count, total_bytes, out, records, heap, reads>>

\* the same without the close
FinishUnclosed(f, printed) ==
    /\ log' = log \o printed
               \o IF opts.verbose THEN <<Line("Processed", record_count)>> ELSE <<>>
    /\ fin' = f
    /\ pc' = "Done"
    /\ UNCHANGED <<inputs, record_count, total_bytes, exc, out, records, heap, reads>>

\* after the loop: the count is printed and the file closed
Finish(f, printed) ==
    /\ log' = log \o printed
               \o IF opts.verbose THEN <<Line("Processed", record_count)>> ELSE <<>>
    /\ fin' = Close(f)
    /\ pc' = "Done"
    /\ UNCHANGED <<inputs, record_count, total_bytes, exc, out, records, heap, reads>>

\* the same with an except clause for DecodeError alone: any other exception
\* leaves unpack as it is
UnpackBreakDecodeOnly ==
    /\ Running
    /\ \E res \in {Res} :
        /\ res.exc # ""
        /\ ~opts.strict
        /\ ~Backtracks(res.exc)
        /\ IF res.exc = "DecodeError"
           THEN Finish(res.f, res.log \o PrintedException(res.exc))
           ELSE /\ fin' = res.f
                /\ pc' = "Failed"
                /\ exc' = res.exc
                /\ log' = log \o res.log
                /\ UNCHANGED <<inputs, record_count, total_bytes, out, records,
                               heap, reads>>

\* an exception that is neither raised again nor backtracked from leaves r
\* None, and the loop breaks
UnpackBreak ==
    /\ Running
    /\ \E res \in {Res} :
        /\ res.exc # ""
        /\ ~opts.strict
        /\ ~Backtracks(res.exc)
        /\ Finish(res.f, res.log \o PrintedException(res.exc))

\* read_one_record returned None
UnpackEOF ==
    /\ Running
    /\ \E res \in {Res} :
        /\ res.exc = ""
        /\ res.r = None
        /\ Finish(res.f, res.log)

\* read_one_record returned a record: it is counted and yielded
Yield(res) ==
    /\ res.exc = ""
    /\ res.r # None
    /\ log' = log \o res.log
               \o IF opts.verbose /\ res.r[1].error # None
                  THEN <<Line("r.error", res.r[1].error[1][1])>> ELSE <<>>
    /\ record_count' = record_count + 1
    /\ total_bytes' = total_bytes + res.size
    /\ out' = Append(out, [r |-> res.r[1], total_bytes |-> total_bytes + res.size])
    /\ fin' = res.f
    /\ UNCHANGED <<inputs, reads>>

\* a caller iterating unpack itself
UnpackYield ==
    /\ Running
    /\ api = "unpack"
    /\ \E res \in {Res} : Yield(res)
    /\ UNCHANGED <<pc, exc, records, heap>>

\* the same yielding nothing
ProjectDropped(p) ==
    IF p.exc = ""
    THEN heap' = p.heap /\ UNCHANGED <<exc, records>>
    ELSE exc' = (IF Caught(p.exc) THEN "" ELSE p.exc) /\ UNCHANGED <<records, heap>>

\* what becomes of a projection p: the record is yielded, or what the
\* projection raised reaches the caller (ssl.SSLError alone is caught)
Project(p) ==
    IF p.exc = ""
    THEN records' = Append(records, p.container) /\ heap' = p.heap /\ UNCHANGED exc
    ELSE exc' = (IF Caught(p.exc) THEN "" ELSE p.exc) /\ UNCHANGED <<records, heap>>

HekaYield ==
    /\ Running
    /\ api = "parse_heka_message"
    /\ \E res \in {Res} :
        /\ Yield(res)
        /\ \E p \in {ParseHekaRecord(res.r[1], heap)} : p.exc = "" /\ Project(p)
    /\ UNCHANGED pc

\* the projection raises: a caught exception ends the sequence
HekaRaise ==
    /\ Running
    /\ api = "parse_heka_message"
    /\ \E res \in {Res} :
        /\ Yield(res)
        /\ \E p \in {ParseHekaRecord(res.r[1], heap)} :
            /\ p.exc # ""
            /\ Project(p)
            /\ pc' = IF Caught(p.exc) THEN "Done" ELSE pc

Next ==
    \/ UnpackRaise
    \/ UnpackBacktrack
    \/ UnpackBreak
    \/ UnpackEOF
    \/ UnpackYield
    \/ HekaYield
    \/ HekaRaise

Spec == Init /\ [][Next]_vars

\* a caller that keeps pulling: a step that can be taken is taken
FairSpec == Spec /\ WF_vars(Next)

(* ---------------------------------------------------------------------- *)
(* unpack and parse_heka_message over a stream whose read may raise        *)
(* ---------------------------------------------------------------------- *)
\* a read that raises at the end of one of the items, a TLS failure or another
\* I/O error
Faults(its) ==
    {NoFault} \cup {[at |-> Len(StreamOf(its, i)), kind |-> k] :
                       i \in 0..Len(its), k \in {"SSLError", "IOError"}}

\* the options that differ from the defaults in strict and backtrack only
FaultOptions ==
    {o \in Options : /\ o.raw = Defaults.raw
                     /\ o.verbose = Defaults.verbose
                     /\ o.try_snappy = Defaults.try_snappy}

InitFault ==
    /\ items \in {its \in Streams : Odd(its) < MaxOdd}
    /\ stream = StreamOf(items, Len(items))
    /\ fault \in Faults(items)
    /\ api \in {"unpack", "parse_heka_message"}
    /\ opts \in IF api = "unpack" THEN FaultOptions ELSE {Defaults}
    /\ Start

FaultSpec == InitFault /\ [][Next]_vars

(* ---------------------------------------------------------------------- *)
(* _parse_heka_record called on its own, and the values of its result read *)
(* ---------------------------------------------------------------------- *)
\* the texts of the catalogue
Five == <<"5">>
ObjectX1 == <<"{", "\"", "x", "\"", ":", "1", "}">>
List1 == <<"[", "1", "]">>
Unclosed == <<"{", "b">>
H2 == <<"h", "2">>
NameAB == <<"a", ".", "b">>
NameABC == <<"a", ".", "b", ".", "c">>
Submission == <<"s", "u", "b", "m", "i", "s", "s", "i", "o", "n">>

StringField(name, value) == Field(name, 0, value, <<>>, <<>>, <<>>, <<>>)
BytesField(name, value) == Field(name, 1, <<>>, value, <<>>, <<>>, <<>>)
IntegerField(name, value) == Field(name, 2, <<>>, <<>>, value, <<>>, <<>>)

\* the fields of the catalogue
Fields ==
    {StringField(HostnameName, <<PyStr(H2)>>),
     StringField(HostnameName, <<>>),
     IntegerField(TimestampName, <<PyInt(7)>>),
     StringField(NameAB, <<PyStr(Five)>>),
     StringField(NameAB, <<PyStr(ObjectX1)>>),
     StringField(NameAB, <<PyStr(List1)>>),
     StringField(NameAB, <<PyStr(Unclosed)>>),
     StringField(NameABC, <<PyStr(Five)>>),
     IntegerField(NameAB, <<PyInt(5)>>),
     BytesField(NameAB, <<PyStr(Five)>>),
     BytesField(Submission, <<PyStr(ObjectX1)>>)}

\* the payloads of the catalogue
Payloads == {<<>>, ObjectX1, Unclosed}

Messages ==
    {Message(1, <<"t">>, <<"h", "1">>, payload, fields) :
        payload \in Payloads,
        fields \in UNION {[1..n -> Fields] : n \in 0..MaxFields}}

InitRecord ==
    /\ items = <<>>
    /\ stream = <<>>
    /\ fault = NoFault
    /\ api = "_parse_heka_record"
    /\ opts = Defaults
    /\ record \in {UnpackedRecord(<<>>, [message_length |-> 0], Some(m), None) :
                      m \in Messages}
    /\ fin = NewFile(FALSE)
    /\ record_count = 0
    /\ total_bytes = 0
    /\ pc = "Projecting"
    /\ exc = ""
    /\ out = <<>>
    /\ records = <<>>
    /\ heap = <<>>
    /\ reads = <<>>
    /\ log = <<>>

\* _parse_heka_record returns its result
RecordReturn ==
    /\ pc = "Projecting"
    /\ \E p \in {ParseHekaRecord(record, heap)} :
        /\ p.exc = ""
        /\ Project(p)
        /\ reads' = [id \in 1..Len(p.heap) |-> {}]
    /\ pc' = "Projected"
    /\ UNCHANGED <<inputs, fin, record_count, total_bytes, out, log>>

\* _parse_heka_record raises
RecordRaise ==
    /\ pc = "Projecting"
    /\ \E p \in {ParseHekaRecord(record, heap)} :
        /\ p.exc # ""
        /\ Project(p)
    /\ pc' = "Raised"
    /\ UNCHANGED <<inputs, fin, record_count, total_bytes, out, reads, log>>

\* the same with one __cache__ for all the wrappers of a kind, as of a
\* WrapperType made once for mappings and once for sequences
ReadLazyShared ==
    /\ pc = "Projected"
    /\ \E id \in 1..Len(heap) :
        /\ heap[id].accesses < MaxReads
        /\ \E acc \in {Access(heap[id])} :
            /\ heap' = [j \in 1..Len(heap) |->
                           IF j = id THEN acc.cell
                           ELSE IF heap[j].default = heap[id].default
                           THEN [heap[j] EXCEPT !.cache = acc.cell.cache]
                           ELSE heap[j]]
            /\ reads' = [reads EXCEPT ![id] =
                            @ \cup {[exc |-> acc.exc, value |-> acc.value]}]
    /\ UNCHANGED <<inputs, fin, record_count, total_bytes, pc, exc, out, records, log>>

\* the caller reads a lazy value of the record: what the read returned, or
\* that it raised, is kept
ReadLazy ==
    /\ pc = "Projected"
    /\ \E id \in 1..Len(heap) :
        /\ heap[id].accesses < MaxReads
        /\ \E acc \in {Access(heap[id])} :
            /\ heap' = [heap EXCEPT ![id] = acc.cell]
            /\ reads' = [reads EXCEPT ![id] =
                            @ \cup {[exc |-> acc.exc, value |-> acc.value]}]
    /\ UNCHANGED <<inputs, fin, record_count, total_bytes, pc, exc, out, records, log>>

NextRecord ==
    \/ RecordReturn
    \/ RecordRaise
    \/ ReadLazy

SpecRecord == InitRecord /\ [][NextRecord]_vars

(* ---------------------------------------------------------------------- *)
(* _parse_heka_record called once and once more on a message of lazy       *)
(* fields, and the lazy values of the two records read                     *)
(* ---------------------------------------------------------------------- *)
ObjectY2 == <<"{", "\"", "y", "\"", ":", "2", "}">>
NameCD == <<"c", ".", "d">>

\* fields whose values are lazy, and one that makes the projection raise
LazyFields ==
    {StringField(NameAB, <<PyStr(ObjectX1)>>),
     StringField(NameAB, <<PyStr(List1)>>),
     StringField(NameAB, <<PyStr(Unclosed)>>),
     StringField(NameCD, <<PyStr(ObjectX1)>>),
     StringField(NameCD, <<PyStr(ObjectY2)>>),
     IntegerField(NameAB, <<PyInt(5)>>)}

LazyMessages ==
    {Message(1, <<"t">>, <<"h", "1">>, <<>>, fields) :
        fields \in UNION {[1..n -> LazyFields] : n \in 0..MaxFields}}

InitLazy ==
    /\ items = <<>>
    /\ stream = <<>>
    /\ fault = NoFault
    /\ api = "_parse_heka_record"
    /\ opts = Defaults
    /\ record \in {UnpackedRecord(<<>>, [message_length |-> 0], Some(m), None) :
                      m \in LazyMessages}
    /\ fin = NewFile(FALSE)
    /\ record_count = 0
    /\ total_bytes = 0
    /\ pc = "Projecting"
    /\ exc = ""
    /\ out = <<>>
    /\ records = <<>>
    /\ heap = <<>>
    /\ reads = <<>>
    /\ log = <<>>

\* _parse_heka_record is called on the message once more and returns a
\* second record, with wrappers of its own
RecordAgain ==
    /\ pc = "Projected"
    /\ Len(records) = 1
    /\ \E p \in {ParseHekaRecord(record, heap)} :
        /\ p.exc = ""
        /\ Project(p)
        /\ reads' = [id \in 1..Len(p.heap) |->
                        IF id \in DOMAIN reads THEN reads[id] ELSE {}]
    /\ UNCHANGED <<inputs, fin, record_count, total_bytes, pc, out, log>>

NextLazy ==
    \/ RecordReturn
    \/ RecordRaise
    \/ RecordAgain
    \/ ReadLazy

SpecLazy == InitLazy /\ [][NextLazy]_vars

(* ---------------------------------------------------------------------- *)
(* unpack and parse_heka_message over damaged streams: frames with an      *)
(* empty header, repeated separators, frames that stop behind the header,  *)
(* and a stream that ends, or whose read raises, at any offset             *)
(* ---------------------------------------------------------------------- *)
EdgeKinds == {"plain", "corrupt", "junk", "nohdr", "sep", "nousep"}

EdgeStreams == UNION {[1..n -> EdgeKinds] : n \in 0..MaxEdge}

\* the first n bytes of the stream built of its
Truncated(its, n) == SubSeq(StreamOf(its, Len(its)), 1, n)

\* the stream ends where it was cut, or its read raises from there on
EdgeFaults(bytes) == {NoFault, [at |-> Len(bytes), kind |-> "IOError"]}

InitEdge ==
    /\ items \in EdgeStreams
    /\ stream \in {Truncated(items, n) : n \in 0..Len(StreamOf(items, Len(items)))}
    /\ fault \in EdgeFaults(stream)
    /\ api \in {"unpack", "parse_heka_message"}
    /\ opts \in IF api = "unpack" THEN FaultOptions ELSE {Defaults}
    /\ Start

EdgeSpec == InitEdge /\ [][Next]_vars

(* ---------------------------------------------------------------------- *)
(* The stream as it was built, for stating the properties                  *)
(* ---------------------------------------------------------------------- *)
N == Len(items)

\* the bytes of item i, and the number of bytes of the stream through item i
Bytes(i) == ItemBytes(items[i], i)
Offset(i) == Len(StreamOf(items, i))

\* the message of item i when it is a plain or a compressed frame
MessageOf(i) == Message(i, <<>>, <<>>, <<>>, <<>>)

\* item i is a plain or a compressed frame whose body decodes under the
\* options given
Decodable(i) ==
    \/ items[i] = "plain"
    \/ items[i] = "snappy" /\ opts.try_snappy

\* item i is a frame whose body does not decode under the options given
Undecodable(i) ==
    \/ items[i] = "corrupt"
    \/ items[i] = "snappy" /\ ~opts.try_snappy

\* the raw bytes of the records yielded so far
RECURSIVE RawsOf(_, _)
RawsOf(o, n) == IF n = 0 THEN <<>> ELSE Append(RawsOf(o, n - 1), o[n].r.raw)
Raws == RawsOf(out, Len(out))

IsPrefix(a, b) == Len(a) <= Len(b) /\ a = SubSeq(b, 1, Len(a))

(* ---------------------------------------------------------------------- *)
(* C1: a stream of N well-formed frames is yielded whole: the i-th yielded *)
(* frame is the i-th frame of the stream, without error, its cumulative    *)
(* byte count is the length of the stream through that frame, nothing is   *)
(* raised, and at the end N frames were yielded.                           *)
(* ---------------------------------------------------------------------- *)
WellFormedStream == \A i \in 1..N : Decodable(i)

RoundTrip ==
    WellFormedStream =>
        /\ exc = ""
        /\ pc # "Failed"
        /\ Len(out) <= N
        /\ \A i \in 1..Len(out) :
            /\ out[i].r.raw = Bytes(i)
            /\ out[i].r.error = None
            /\ out[i].total_bytes = Offset(i)
            /\ ~opts.raw => out[i].r.message = Some(MessageOf(i))
        /\ pc = "Done" => Len(out) = N /\ total_bytes = Len(stream)

RoundTripWitness ==
    /\ WellFormedStream
    /\ pc = "Done"
    /\ N = 4
    /\ \E i \in 1..N : items[i] = "snappy"
    /\ Len(out) = 4
    /\ out[4].total_bytes = Len(stream)

(* ---------------------------------------------------------------------- *)
(* C2: strict mode. When item k is the first of the stream that fails (an  *)
(* undecodable body, a wrong unit separator, or garbage in front of a      *)
(* separator), unpack yields exactly the frames 1..k-1, never ends         *)
(* normally, and ends by closing the stream and raising.                   *)
(* ---------------------------------------------------------------------- *)
\* item i makes a strict read_one_record raise
FailsStrict(i) ==
    \/ Undecodable(i) /\ ~opts.raw
    \/ items[i] = "badusep"
    \/ items[i] = "junk" /\ \E j \in (i + 1)..N : items[j] # "junk"

\* the first item that fails in strict mode, 0 when none does
FirstFailing ==
    IF \E i \in 1..N : FailsStrict(i)
    THEN CHOOSE i \in 1..N : FailsStrict(i) /\ \A j \in 1..(i - 1) : ~FailsStrict(j)
    ELSE 0

StrictStops ==
    (opts.strict /\ FirstFailing > 0) =>
        /\ Len(out) < FirstFailing
        /\ \A i \in 1..Len(out) : out[i].r.raw = Bytes(i) /\ out[i].r.error = None
        /\ pc # "Done"
        /\ pc = "Reading" => exc = "" /\ fin.closed = 0
        /\ pc = "Failed" =>
            /\ Len(out) = FirstFailing - 1
            /\ exc \in {"DecodeError", "ValueError"}
            /\ fin.closed = 1

StrictStopsWitness ==
    /\ opts.strict
    /\ FirstFailing = 3
    /\ N = 4
    /\ pc = "Failed"
    /\ exc = "DecodeError"
    /\ Len(out) = 2

(* ---------------------------------------------------------------------- *)
(* C3: lenient mode (strict and backtrack off) goes on after a decode      *)
(* error: every well-formed frame of the stream is yielded by the time the *)
(* sequence ends, also those behind a frame whose body does not decode.    *)
(* ---------------------------------------------------------------------- *)
LenientContinues ==
    (~opts.strict /\ ~opts.backtrack /\ ~opts.raw /\ api = "unpack" /\ pc = "Done") =>
        \A i \in 1..N :
            Decodable(i) => \E j \in 1..Len(out) : out[j].r.raw = Bytes(i)

(* ---------------------------------------------------------------------- *)
(* C4: with strict and backtrack off, when frame k is the first whose body *)
(* does not decode, unpack yields the frames in front of it in order and   *)
(* then ends the sequence, raising nothing.                                *)
(* ---------------------------------------------------------------------- *)
FirstUndecodable ==
    IF \E i \in 1..N : Undecodable(i)
    THEN CHOOSE i \in 1..N : Undecodable(i) /\ \A j \in 1..(i - 1) : ~Undecodable(j)
    ELSE 0

\* what unpack yields of item i: a frame with a wrong unit separator ends
\* with its header
YieldedRaw(i) ==
    IF items[i] = "badusep" THEN SubSeq(Bytes(i), 1, 4) ELSE Bytes(i)

\* the raw records of the frames among the items 1..n
RECURSIVE FramesThrough(_)
FramesThrough(n) ==
    IF n = 0 THEN <<>>
    ELSE FramesThrough(n - 1) \o IF items[n] = "junk" THEN <<>> ELSE <<YieldedRaw(n)>>

LenientEndsAtDecodeError ==
    (~opts.strict /\ ~opts.backtrack /\ ~opts.raw /\ api = "unpack"
        /\ FirstUndecodable > 0) =>
        /\ exc = ""
        /\ pc # "Failed"
        /\ IsPrefix(Raws, FramesThrough(FirstUndecodable - 1))
        /\ pc = "Done" =>
            /\ Raws = FramesThrough(FirstUndecodable - 1)
            /\ fin.closed = 1

LenientEndsAtDecodeErrorWitness ==
    /\ ~opts.strict /\ ~opts.backtrack /\ ~opts.raw /\ api = "unpack"
    /\ FirstUndecodable = 3
    /\ N = 5
    /\ Decodable(4)
    /\ pc = "Done"
    /\ Len(out) = 2
    /\ exc = ""

(* ---------------------------------------------------------------------- *)
(* C5: backtrack recovery. Of five well-formed frames of which the third   *)
(* has a corrupted body, unpack with backtrack on and strict off, reading  *)
(* through a BacktrackableFile, yields the frames 1, 2, 4 and 5, each      *)
(* once and in this order.                                                 *)
(* ---------------------------------------------------------------------- *)
BacktrackRecovers ==
    (/\ items = <<"plain", "plain", "corrupt", "plain", "plain">>
     /\ opts.backtrack /\ ~opts.strict /\ ~opts.raw /\ fin.wrapped
     /\ pc = "Done") =>
        Raws = <<Bytes(1), Bytes(2), Bytes(4), Bytes(5)>>

(* ---------------------------------------------------------------------- *)
(* C6: snappy fallback. With try_snappy on, a body is decoded from its     *)
(* decompressed bytes when those parse and from the bytes as read          *)
(* otherwise, so a stream mixing compressed and uncompressed frames yields *)
(* every frame with its own message and no error.                          *)
(* ---------------------------------------------------------------------- *)
\* the body of a yielded record: what follows the separator, the length
\* byte, the header and the unit separator
BodyOf(raw_record) == SubSeq(raw_record, raw_record[2] + 4, Len(raw_record))

SnappyFallback ==
    (opts.try_snappy /\ ~opts.raw) =>
        /\ \A j \in 1..Len(out) :
            out[j].r.message # None =>
                LET body == BodyOf(out[j].r.raw)
                    unz == SnappyDecompress(body)
                IN  out[j].r.message[1] =
                        IF unz.ok /\ MessageParse(unz.data).ok
                        THEN MessageParse(unz.data).message
                        ELSE MessageParse(body).message
        /\ (\A i \in 1..N : items[i] \in {"plain", "snappy"}) =>
            /\ exc = ""
            /\ pc # "Failed"
            /\ \A i \in 1..Len(out) :
                /\ out[i].r.raw = Bytes(i)
                /\ out[i].r.message = Some(MessageOf(i))
            /\ pc = "Done" => Len(out) = N

SnappyFallbackWitness ==
    /\ opts.try_snappy /\ ~opts.raw
    /\ N = 4
    /\ items[1] = "plain" /\ items[2] = "snappy" /\ items[3] = "plain"
    /\ items[4] = "snappy"
    /\ pc = "Done"
    /\ Len(out) = 4
    /\ out[2].r.message = Some(MessageOf(2))
    /\ out[3].r.message = Some(MessageOf(3))

(* ---------------------------------------------------------------------- *)
(* C7: resynchronization. K >= 1 garbage bytes in front of the separator   *)
(* of a well-formed frame: a non-strict reader reports K skipped bytes,    *)
(* returns the frame and counts K bytes plus the frame; a strict reader    *)
(* raises a framing error and the frame is not yielded.                    *)
(* ---------------------------------------------------------------------- *)
\* the items 1..j are well-formed frames, K garbage bytes follow them, and
\* the item after these is a well-formed frame
GarbageRun(j, K) ==
    /\ j + K + 1 <= N
    /\ \A i \in 1..j : Decodable(i)
    /\ \A i \in (j + 1)..(j + K) : items[i] = "junk"
    /\ Decodable(j + K + 1)

Printed(line) == \E n \in 1..Len(log) : log[n] = line

Resynchronizes ==
    \A j \in 0..N : \A K \in 1..N :
        GarbageRun(j, K) =>
            IF opts.strict
            THEN /\ Len(out) <= j
                 /\ pc # "Done"
                 /\ pc = "Failed" => exc = "ValueError" /\ Len(out) = j
            ELSE /\ Len(out) > j =>
                    /\ out[j + 1].r.raw = Bytes(j + K + 1)
                    /\ out[j + 1].r.error = None
                    /\ out[j + 1].total_bytes = Offset(j) + K + Len(Bytes(j + K + 1))
                    /\ opts.verbose => Printed(Line("Skipped", K))
                 /\ pc = "Done" => Len(out) > j

ResynchronizesWitness ==
    /\ ~opts.strict /\ opts.verbose
    /\ GarbageRun(1, 2)
    /\ Len(out) = 2
    /\ out[2].total_bytes = out[1].total_bytes + 2 + Len(Bytes(4))
    /\ Printed(Line("Skipped", 2))

(* ---------------------------------------------------------------------- *)
(* C8: unit-separator check. When the byte after the header is not 0x1f, a *)
(* non-strict read_one_record returns a record with an error and without   *)
(* message, counting the skipped bytes, the separator, the length byte,    *)
(* the header and the offending byte, and leaves the body unread; a strict *)
(* one raises a framing error.                                             *)
(* ---------------------------------------------------------------------- *)
\* the garbage bytes right in front of item m
RECURSIVE JunkBefore(_)
JunkBefore(m) ==
    IF m > 1 /\ items[m - 1] = "junk" THEN 1 + JunkBefore(m - 1) ELSE 0

\* item m has a wrong unit separator, and in front of it are well-formed
\* frames and garbage bytes only
BadSeparatorAt(m) ==
    /\ m \in 1..N
    /\ items[m] = "badusep"
    /\ \A i \in 1..(m - 1) : Decodable(i) \/ items[i] = "junk"

\* the number of frames among the items 1..m
FrameCount(m) == Len(FramesThrough(m))

UnitSeparatorChecked ==
    \A m \in 1..N :
        BadSeparatorAt(m) =>
            IF opts.strict
            THEN /\ Len(out) < FrameCount(m)
                 /\ pc # "Done"
                 /\ pc = "Failed" => exc = "ValueError" /\ fin.pos <= Offset(m - 1) + 5
            ELSE /\ (Running /\ Len(out) = FrameCount(m) - 1) =>
                    /\ Res.exc = ""
                    /\ Res.r # None
                    /\ Res.size = JunkBefore(m) + 5
                    /\ Res.f.pos = Offset(m - 1) + 5
                 /\ Len(out) >= FrameCount(m) =>
                    LET y == out[FrameCount(m)]
                    IN  /\ y.r.error = Some(<<JunkBefore(m) + 5, GarbageByte>>)
                        /\ y.r.message = None
                        /\ y.r.raw = SubSeq(Bytes(m), 1, 4)
                        /\ y.total_bytes = Offset(m - 1) + 5

UnitSeparatorCheckedWitness ==
    /\ ~opts.strict
    /\ BadSeparatorAt(3)
    /\ items[2] = "junk"
    /\ N = 4
    /\ pc = "Reading"
    /\ Len(out) = 2
    /\ out[2].r.error = Some(<<6, GarbageByte>>)
    /\ out[2].r.message = None
    /\ fin.pos = Offset(2) + 5

(* ---------------------------------------------------------------------- *)
(* C9: in non-strict mode unpack yields nothing for a frame that has a     *)
(* framing error and no message.                                           *)
(* ---------------------------------------------------------------------- *)
ErrorFrameNotYielded ==
    ~opts.strict =>
        \A j \in 1..Len(out) : ~(out[j].r.error # None /\ out[j].r.message = None)

(* ---------------------------------------------------------------------- *)
(* C10: parse_heka_message over well-formed frames and frames with a wrong *)
(* unit separator does not fail, and at the end it has yielded the records *)
(* of the well-formed frames.                                              *)
(* ---------------------------------------------------------------------- *)
HekaSkipsBadFrame ==
    (/\ api = "parse_heka_message"
     /\ \A i \in 1..N : items[i] \in {"plain", "snappy", "badusep"}
     /\ \E m \in 1..(N - 1) :
            items[m] = "badusep" /\ \A i \in (m + 1)..N : items[i] # "badusep") =>
        /\ exc = ""
        /\ pc = "Done" =>
            Len(records) = Cardinality({i \in 1..N : items[i] # "badusep"})

(* ---------------------------------------------------------------------- *)
(* C11: counts are accurate in every mode. At each yield the cumulative    *)
(* byte count is the number of bytes of the stream the reader has consumed *)
(* by then, which is no more than the stream holds, and the record count   *)
(* is the number of frames yielded.                                        *)
(* ---------------------------------------------------------------------- *)
\* the bytes of the stream the reader of f was handed: those read from the
\* stream less those of the replay buffer not handed out again
Consumed(f) == f.pos - (Len(f.buf) - f.bpos)

CountsAccurate ==
    [][Len(out') > Len(out) =>
          /\ out'[Len(out')].total_bytes = total_bytes'
          /\ total_bytes' = Consumed(fin')
          /\ total_bytes' <= Len(stream)
          /\ record_count' = Len(out')]_vars

(* ---------------------------------------------------------------------- *)
(* C12: stream release. Whenever unpack's sequence has ended, by the end   *)
(* of the stream (Done) or by a failure that was raised (Failed), the      *)
(* stream has been closed exactly once; it is not closed before, and once  *)
(* it is closed unpack takes no further step, so it reads nothing more.    *)
(* ---------------------------------------------------------------------- *)
StreamReleased ==
    /\ pc \in {"Done", "Failed"} => fin.closed = 1
    /\ pc = "Reading" => fin.closed = 0
    /\ fin.closed > 0 => ~ENABLED Next

StreamReleasedWitness ==
    /\ pc = "Done"
    /\ fin.wrapped
    /\ fin.closed = 1
    /\ Len(out) = 3
    /\ fin.pos = Len(stream)

(* ---------------------------------------------------------------------- *)
(* C13: termination. A caller that keeps pulling from unpack gets finitely *)
(* many elements: unpack reaches Done or Failed, whatever the stream and   *)
(* the options. The bytes left to process, those of the replay buffer and  *)
(* those not yet read from the stream, never grow, and every backtrack     *)
(* leaves strictly fewer of them.                                          *)
(* ---------------------------------------------------------------------- *)
BytesLeft(f) == Len(f.buf) + (Len(stream) - f.pos)

Terminates ==
    /\ [][/\ BytesLeft(fin') <= BytesLeft(fin)
          /\ UnpackBacktrack => BytesLeft(fin') < BytesLeft(fin)]_vars
    /\ <>(api = "unpack" => pc \in {"Done", "Failed"})

TerminatesWitness ==
    /\ api = "unpack"
    /\ opts.backtrack /\ opts.verbose
    /\ pc = "Done"
    /\ Printed(Line("DecodeError", 0))
    /\ Len(out) = 2
    /\ BytesLeft(fin) < Len(stream)

(* ---------------------------------------------------------------------- *)
(* C14: a lazy JSON value parses exactly once. A value built from a raw    *)
(* string that begins with "{" or "[" has parsed nothing before its first  *)
(* access, and from the first access on it has parsed exactly once,        *)
(* whatever the number of reads; all its reads returned the same content.  *)
(* ---------------------------------------------------------------------- *)
ParsesOnce ==
    \A id \in 1..Len(heap) :
        /\ heap[id].accesses = 0 => heap[id].parses = 0
        /\ heap[id].accesses >= 1 => heap[id].parses = 1
        /\ id \in DOMAIN reads => Cardinality(reads[id]) <= 1

(* ---------------------------------------------------------------------- *)
(* The message projected and its record, for stating the properties        *)
(* ---------------------------------------------------------------------- *)
\* the fields of the message handed to _parse_heka_record, and the name of
\* field i as its segments
FieldsIn == record.message[1].fields
Segments(i) == Split(FieldsIn[i].name, ".")

\* the first value of field i as the loop takes it
FirstValue(i) == FirstOf(ValueOf(FieldsIn[i]))

\* the record returned
Result == records[1]

\* the items of a container: those of a mapping, and those a wrapper around
\* a mapping shows once its cache is loaded
ItemsOf(v) ==
    IF IsA(v, "map") THEN v.map
    ELSE IF IsA(v, "ref") /\ heap[v.ref].cache # None /\ IsA(heap[v.ref].cache[1], "map")
    THEN heap[v.ref].cache[1].map
    ELSE <<>>

\* v[path[1]][path[2]]..., None when a key is missing
RECURSIVE Lookup(_, _)
Lookup(v, path) ==
    IF path = <<>> THEN Some(v)
    ELSE IF path[1] \in DOMAIN ItemsOf(v)
    THEN Lookup(ItemsOf(v)[path[1]], Tail(path))
    ELSE None

\* the mapping that holds v under keys[1]...[keys[n]] and nothing else
RECURSIVE Nested(_, _)
Nested(keys, v) ==
    IF keys = <<>> THEN v ELSE PyDict(keys[1] :> Nested(Tail(keys), v))

\* field i is kept by the loop
Kept(i) == FieldsIn[i].value_type # 1

\* no field kept after field i is stored at, above or below the place of
\* field i
LastAt(i) ==
    \A j \in (i + 1)..Len(FieldsIn) :
        (Kept(j) /\ Len(Segments(j)) >= 2) =>
            ~(IsPrefix(Segments(j), Segments(i)) \/ IsPrefix(Segments(i), Segments(j)))

(* ---------------------------------------------------------------------- *)
(* C15: dotted field nesting. A string-typed field named s1.s2...sn with   *)
(* n >= 2 is stored at record[s1][s2]...[sn], under mappings made empty    *)
(* for the segments that were missing; its value is inferred from the raw  *)
(* string: "5" is the integer 5, and {"x":1} is a value that reads as the  *)
(* mapping of x to 1.                                                      *)
(* ---------------------------------------------------------------------- *)
\* v is what the raw string stands for
InferredFrom(v, raw) ==
    /\ raw = Five => v = PyInt(5)
    /\ (StartsWith(raw, "{") \/ StartsWith(raw, "[")) =>
        /\ IsA(v, "ref")
        /\ heap[v.ref].content = raw
    /\ raw = ObjectX1 =>
        \A o \in reads[v.ref] : o = [exc |-> "", value |-> PyDict(<<"x">> :> PyInt(1))]

DottedNesting ==
    pc = "Projected" =>
        \A i \in 1..Len(FieldsIn) :
            (FieldsIn[i].value_type = 0 /\ Len(Segments(i)) >= 2 /\ LastAt(i)) =>
                /\ Lookup(PyDict(Result), Segments(i)) # None
                /\ InferredFrom(Lookup(PyDict(Result), Segments(i))[1], FirstValue(i).str)
                /\ (Len(FieldsIn) = 1 /\ record.message[1].payload = <<>>) =>
                    /\ DOMAIN Result = {Meta, Segments(i)[1]}
                    /\ Result[Segments(i)[1]] =
                          Nested(Tail(Segments(i)),
                                 Lookup(PyDict(Result), Segments(i))[1])

DottedNestingWitness ==
    /\ pc = "Projected"
    /\ Len(FieldsIn) = 2
    /\ FieldsIn[1] = StringField(NameABC, <<PyStr(Five)>>)
    /\ FieldsIn[2] = StringField(HostnameName, <<PyStr(H2)>>)
    /\ record.message[1].payload = ObjectX1
    /\ Result[<<"a">>].map[<<"b">>].map[<<"c">>] = PyInt(5)

(* ---------------------------------------------------------------------- *)
(* C16: meta field override. A field that the loop keeps and whose name    *)
(* has the one segment X sets record["meta"][X] to its first value, the    *)
(* empty string when it has none, replacing what meta held for X, also the *)
(* Timestamp, Type and Hostname of the message; it makes no key X at the   *)
(* top of the record.                                                      *)
(* ---------------------------------------------------------------------- *)
\* the keys the payload brings to the top of the record
PayloadKeys ==
    IF record.message[1].payload = <<>> THEN {}
    ELSE DOMAIN JsonLoads(record.message[1].payload).value.map

\* the top-level keys the dotted fields make
DottedKeys ==
    {Segments(j)[1] : j \in {k \in 1..Len(FieldsIn) : Kept(k) /\ Len(Segments(k)) >= 2}}

\* field i is the last kept field of its one-segment name
LastOfName(i) ==
    \A j \in (i + 1)..Len(FieldsIn) : Kept(j) => Segments(j) # Segments(i)

MetaOverride ==
    pc = "Projected" =>
        \A i \in 1..Len(FieldsIn) :
            (Kept(i) /\ Len(Segments(i)) = 1) =>
                /\ LastOfName(i) => Result[Meta].map[Segments(i)[1]] = FirstValue(i)
                /\ Segments(i)[1] \in DOMAIN Result =>
                       Segments(i)[1] \in PayloadKeys \cup DottedKeys

MetaOverrideWitness ==
    /\ pc = "Projected"
    /\ Len(FieldsIn) = 2
    /\ FieldsIn[1] = StringField(HostnameName, <<PyStr(H2)>>)
    /\ FieldsIn[2] = IntegerField(TimestampName, <<PyInt(7)>>)
    /\ Result[Meta].map[HostnameName] = PyStr(H2)
    /\ Result[Meta].map[TimestampName] = PyInt(7)
    /\ DOMAIN Result = {Meta}

(* ---------------------------------------------------------------------- *)
(* C17: bytes-typed fields. _parse_heka_record of heka/message_parser.py   *)
(* leaves a bytes-typed field out of the record: the record is that of the *)
(* message without the field. A bytes-typed field named submission is the  *)
(* exception: its first value is parsed as JSON and the keys of the        *)
(* document are found at the top of the record.                            *)
(* ---------------------------------------------------------------------- *)
\* the record handed in, without its field i
WithoutField(i) ==
    [record EXCEPT !.message =
        Some([@[1] EXCEPT !.fields = SubSeq(@, 1, i - 1) \o SubSeq(@, i + 1, Len(@))])]

\* the record is the one the message without field i gives
LeftOut(i) == ParseHekaRecord(WithoutField(i), <<>>).container = Result

\* the keys of the JSON document in the first value of field i are at the
\* top of the record
Merged(i) ==
    \A k \in DOMAIN JsonLoads(FieldsIn[i].value_bytes[1].str).value.map :
        /\ k \in DOMAIN Result
        /\ Result[k] = JsonLoads(FieldsIn[i].value_bytes[1].str).value.map[k]

BytesFields ==
    pc = "Projected" =>
        \A i \in 1..Len(FieldsIn) :
            FieldsIn[i].value_type = 1 =>
                IF FieldsIn[i].name = Submission THEN Merged(i) ELSE LeftOut(i)

(* ---------------------------------------------------------------------- *)
(* C18: a TLS failure is a soft end of stream. When the stream's read      *)
(* raises ssl.SSLError after k frames that decode, parse_heka_message      *)
(* raises nothing, yields the records of these k frames and no other, and  *)
(* ends its sequence, the stream closed.                                   *)
(* ---------------------------------------------------------------------- *)
\* the stream's read raises e at the end of item k, and the items before
\* are frames that decode
RaisesAfter(k, e) ==
    /\ fault.kind = e
    /\ fault.at = Offset(k)
    /\ \A i \in 1..k : Decodable(i)

\* the record of item i when it is a plain or a compressed frame
RecordOf(i) == Put(<<>>, Meta, MetaOf(MessageOf(i)))

TlsErrorEndsStream ==
    api = "parse_heka_message" =>
        \A k \in 0..N :
            RaisesAfter(k, "SSLError") =>
                /\ exc = ""
                /\ pc # "Failed"
                /\ Len(records) <= k
                /\ \A i \in 1..Len(records) : records[i] = RecordOf(i)
                /\ pc = "Done" => Len(records) = k /\ fin.closed = 1

TlsErrorEndsStreamWitness ==
    /\ api = "parse_heka_message"
    /\ N = 4
    /\ RaisesAfter(2, "SSLError")
    /\ pc = "Done"
    /\ Len(records) = 2
    /\ exc = ""

(* ---------------------------------------------------------------------- *)
(* C19: only the TLS failure is caught. When the stream's read raises an   *)
(* I/O error of another kind, the decoder does not end the sequence as at  *)
(* the end of the stream: the sequence never ends normally, and when it    *)
(* has ended the error has reached the caller of unpack or of              *)
(* parse_heka_message.                                                     *)
(* ---------------------------------------------------------------------- *)
OtherErrorPropagates ==
    \A k \in 0..N :
        RaisesAfter(k, "IOError") =>
            /\ pc # "Done"
            /\ pc = "Failed" => exc = "IOError"

(* ---------------------------------------------------------------------- *)
(* C20: a malformed JSON payload is not recovered from. When frame k       *)
(* decodes to a message whose payload is not empty and not JSON, and the   *)
(* frames before it are well-formed, parse_heka_message yields the records *)
(* of the frames 1..k-1 and then raises the parse failure: no record is    *)
(* made of frame k or of a later frame, and the sequence does not end      *)
(* normally.                                                               *)
(* ---------------------------------------------------------------------- *)
BadPayloadAt(k) ==
    /\ k \in 1..N
    /\ items[k] = "badjson"
    /\ \A i \in 1..(k - 1) : Decodable(i)

MalformedPayloadRaises ==
    api = "parse_heka_message" =>
        \A k \in 1..N :
            BadPayloadAt(k) =>
                /\ Len(records) <= k - 1
                /\ \A i \in 1..Len(records) : records[i] = RecordOf(i)
                /\ pc = "Reading"
                /\ exc \in {"", "ValueError"}
                /\ Len(out) >= k => exc = "ValueError"
                /\ exc = "ValueError" =>
                    /\ Len(records) = k - 1
                    /\ Len(out) = k
                    /\ ~ENABLED Next

MalformedPayloadRaisesWitness ==
    /\ api = "parse_heka_message"
    /\ N = 4
    /\ BadPayloadAt(3)
    /\ exc = "ValueError"
    /\ Len(records) = 2
    /\ Len(out) = 3

(* ---------------------------------------------------------------------- *)
(* The damaged streams, for stating the properties                         *)
(* ---------------------------------------------------------------------- *)
\* the stream is the whole of what its items say, and its read never raises
Whole == stream = StreamOf(items, N) /\ fault = NoFault

(* ---------------------------------------------------------------------- *)
(* C21: a frame whose header-length byte is 0 is a frame with an empty     *)
(* header and message_length 0: read_one_record checks its unit separator  *)
(* and returns a frame with an empty body, and the frames that follow it   *)
(* are read as well.                                                       *)
(* ---------------------------------------------------------------------- *)
\* the frame read_one_record is to return for an item with an empty header
EmptyFrame(i) ==
    UnpackedRecord(Bytes(i), [message_length |-> 0],
                   Some(Message(0, <<>>, <<>>, <<>>, <<>>)), None)

\* the frame of a plain item
PlainFrame(i) ==
    UnpackedRecord(Bytes(i), [message_length |-> 2], Some(MessageOf(i)), None)

EmptyHeader ==
    (Whole /\ \A i \in 1..N : items[i] \in {"plain", "nohdr"}) =>
        /\ exc = ""
        /\ Len(out) <= N
        /\ \A i \in 1..Len(out) :
            /\ out[i].r = IF items[i] = "nohdr" THEN EmptyFrame(i) ELSE PlainFrame(i)
            /\ out[i].total_bytes = Offset(i)
        /\ pc = "Done" => Len(out) = N

(* ---------------------------------------------------------------------- *)
(* C22: a run of record separators in front of a frame is one scan for a   *)
(* separator. Of a stream made of well-formed frames with extra separators *)
(* in front of them, unpack yields the frames, each decoded, and nothing   *)
(* else: no empty frame, and no separator taken for a header length.       *)
(* ---------------------------------------------------------------------- *)
\* the plain frames among the items 1..n
RECURSIVE PlainThrough(_)
PlainThrough(n) ==
    IF n = 0 THEN <<>>
    ELSE PlainThrough(n - 1) \o IF items[n] = "plain" THEN <<PlainFrame(n)>> ELSE <<>>

\* well-formed frames, at least one extra separator, and a frame at the end
SeparatorRuns ==
    /\ Whole
    /\ \A i \in 1..N : items[i] \in {"plain", "sep"}
    /\ \E i \in 1..N : items[i] = "sep"
    /\ N > 0 /\ items[N] = "plain"

ConsecutiveSeparators ==
    SeparatorRuns =>
        /\ exc = ""
        /\ pc # "Failed"
        /\ Len(out) <= Len(PlainThrough(N))
        /\ \A j \in 1..Len(out) : out[j].r = PlainThrough(N)[j]
        /\ pc = "Done" => Len(out) = Len(PlainThrough(N))

(* ---------------------------------------------------------------------- *)
(* C23: end-of-stream inside the header. When the stream ends behind the   *)
(* header-length byte of frame k with fewer header bytes than that byte    *)
(* announces (none of them, or some but not all), read_one_record signals  *)
(* end-of-stream and raises nothing: unpack, strict or not, yields the     *)
(* frames in front of frame k and ends normally.                           *)
(* ---------------------------------------------------------------------- *)
\* the stream ends in the header of item k, a plain frame behind plain frames
CutInHeader(k) ==
    /\ k \in 1..N
    /\ fault = NoFault
    /\ \A i \in 1..k : items[i] = "plain"
    /\ Len(stream) >= Offset(k - 1) + 2
    /\ Len(stream) < Offset(k - 1) + 2 + Bytes(k)[2]

EndOfStreamInHeader ==
    \A k \in 1..N :
        CutInHeader(k) =>
            /\ exc = ""
            /\ pc # "Failed"
            /\ Len(out) <= k - 1
            /\ pc = "Done" => Len(out) = k - 1 /\ fin.pos = Len(stream)

(* ---------------------------------------------------------------------- *)
(* C24: raw mode. With raw=True no body is parsed: of a stream of frames   *)
(* with valid unit separators unpack yields every frame, whatever its body *)
(* (plain, compressed, undecodable), with its message absent and its error *)
(* absent, strict or not; nothing is raised; and try_snappy changes        *)
(* nothing of what read_one_record returns.                                *)
(* ---------------------------------------------------------------------- *)
\* every item is a frame with a valid unit separator
FramesOnly == \A i \in 1..N : items[i] \notin {"badusep", "junk"}

\* the frame of item i as raw mode yields it
RawFrame(i) ==
    UnpackedRecord(Bytes(i), [message_length |-> Bytes(i)[4]], None, None)

RawMode ==
    opts.raw =>
        /\ exc # "DecodeError"
        /\ \A j \in 1..Len(out) : out[j].r.message = None
        /\ Running =>
              read_one_record(fin, opts.raw, opts.verbose, opts.strict, ~opts.try_snappy)
                  = Res
        /\ FramesOnly =>
            /\ exc = ""
            /\ pc # "Failed"
            /\ Len(out) <= N
            /\ \A i \in 1..Len(out) :
                out[i].r = RawFrame(i) /\ out[i].total_bytes = Offset(i)
            /\ pc = "Done" => Len(out) = N

RawModeWitness ==
    /\ opts.raw
    /\ opts.strict
    /\ ~opts.try_snappy
    /\ N = 4
    /\ items[2] = "corrupt"
    /\ items[3] = "snappy"
    /\ pc = "Done"
    /\ Len(out) = 4
    /\ out[2].r = RawFrame(2)

(* ---------------------------------------------------------------------- *)
(* C25: the order of the recovery decisions of unpack. A failure of        *)
(* read_one_record in strict mode is raised to the caller, also when       *)
(* backtrack is set; backtrack() is called only when strict is off,        *)
(* backtrack is on and the failure is a DecodeError; any other failure in  *)
(* non-strict mode ends the sequence without a backtrack.                  *)
(* ---------------------------------------------------------------------- *)
\* this call of read_one_record fails
Fails == Running /\ Res.exc # ""

RecoveryOrder ==
    [][/\ UnpackBacktrack =>
            ~opts.strict /\ opts.backtrack /\ Res.exc = "DecodeError"
       /\ (Fails /\ opts.strict) =>
            pc' = "Failed" /\ exc' = Res.exc /\ fin'.buf = Res.f.buf
       /\ (Fails /\ ~opts.strict /\ Res.exc # "DecodeError") =>
            pc' = "Done" /\ exc' = "" /\ fin'.buf = Res.f.buf]_vars

RecoveryOrderWitness ==
    /\ opts.strict
    /\ opts.backtrack
    /\ N = 3
    /\ items[2] = "corrupt"
    /\ Whole
    /\ pc = "Failed"
    /\ exc = "DecodeError"
    /\ Len(out) = 1
    /\ fin.buf = SubSeq(stream, 1, Offset(2))

(* ---------------------------------------------------------------------- *)
(* C26: the scope of the replay buffer. When a call of read_one_record     *)
(* fails to decode, the buffer of the BacktrackableFile holds nothing      *)
(* that was read before that call, so that after a backtrack() no frame    *)
(* already yielded is read and yielded again.                              *)
(* ---------------------------------------------------------------------- *)
\* the bytes this call of read_one_record has read
ReadByCall == Res.f.bpos - fin.bpos

ReplayBufferScope ==
    fin.wrapped =>
        /\ (Running /\ Res.exc = "DecodeError") =>
              Len(Res.f.buf) <= ReadByCall
        /\ \A i, j \in 1..Len(out) :
              (i < j /\ out[i].r.error = None /\ out[j].r.error = None) =>
                  out[i].r.raw # out[j].r.raw

(* ---------------------------------------------------------------------- *)
(* C27: typed multi-segment fields. A message whose payload is empty or    *)
(* JSON and whose fields all have a dotted name, a type tag of integer,    *)
(* double or bool and at least one value is projected without failure,     *)
(* and the first value of each field is found at the nested path of its    *)
(* segments.                                                               *)
(* ---------------------------------------------------------------------- *)
\* field i has a dotted name, a typed value and is not empty
TypedDotted(i) ==
    /\ FieldsIn[i].value_type \in {2, 3, 4}
    /\ Len(Segments(i)) >= 2
    /\ ValueOf(FieldsIn[i]) # <<>>

TypedDottedFields ==
    (/\ record.message[1].payload \in {<<>>, ObjectX1}
     /\ Len(FieldsIn) >= 1
     /\ \A i \in 1..Len(FieldsIn) : TypedDotted(i)) =>
        /\ pc # "Raised"
        /\ exc = ""
        /\ pc = "Projected" =>
            \A i \in 1..Len(FieldsIn) :
                LastAt(i) => Lookup(PyDict(Result), Segments(i)) = Some(FirstValue(i))

(* ---------------------------------------------------------------------- *)
(* C28: resynchronization after a framing error. With strict off, a frame  *)
(* whose header is not followed by the unit separator does not cost the    *)
(* frames behind it: every well-formed frame of the stream is yielded by   *)
(* the time the sequence ends, also the one whose own record separator     *)
(* stands where the unit separator was expected.                           *)
(* ---------------------------------------------------------------------- *)
\* well-formed frames and frames that stop behind their header
HeadersOnly ==
    /\ Whole
    /\ \A i \in 1..N : items[i] \in {"plain", "nousep"}

ResynchronizesAfterFraming ==
    (HeadersOnly /\ ~opts.strict /\ api = "unpack") =>
        /\ exc = ""
        /\ pc # "Failed"
        /\ pc = "Done" =>
            \A i \in 1..N :
                items[i] = "plain" => \E j \in 1..Len(out) : out[j].r = PlainFrame(i)

(* ---------------------------------------------------------------------- *)
(* C29: with strict and backtrack off unpack never raises, whatever the    *)
(* bytes of the stream, wherever the stream ends and whatever its read     *)
(* raises: a failure inside read_one_record ends the sequence with the     *)
(* stream closed, and nothing reaches the caller.                          *)
(* ---------------------------------------------------------------------- *)
Lenient == api = "unpack" /\ ~opts.strict /\ ~opts.backtrack

LenientNeverRaises ==
    /\ [](Lenient =>
            /\ exc = ""
            /\ pc \in {"Reading", "Done"}
            /\ pc = "Done" <=> fin.closed = 1)
    /\ [][(Lenient /\ Fails) =>
            /\ pc' = "Done"
            /\ exc' = ""
            /\ out' = out
            /\ fin'.closed = 1]_vars

\* the stream ended right behind the header of the second frame, and the
\* IndexError of the read of its unit separator was taken for the end
LenientNeverRaisesWitness ==
    /\ Lenient
    /\ items = <<"plain", "plain">>
    /\ fault = NoFault
    /\ Len(stream) = Offset(1) + 4
    /\ pc = "Done"
    /\ exc = ""
    /\ Len(out) = 1
    /\ fin.pos = Len(stream)
    /\ fin.closed = 1

(* ---------------------------------------------------------------------- *)
(* C30: the parse cache of a lazy value is its own. What a read of a lazy  *)
(* value returns is what its own raw string parses to (or the failure of   *)
(* that parse), whichever other values were read before; a value never     *)
(* read was never parsed; and a read changes nothing of any other lazy     *)
(* value, be it of the same raw string, of the same kind or of another     *)
(* record.                                                                 *)
(* ---------------------------------------------------------------------- *)
\* what a read of a lazy value of this raw string is to return
OwnReading(content) ==
    IF JsonLoads(content).ok
    THEN [exc |-> "", value |-> JsonLoads(content).value]
    ELSE [exc |-> "ValueError", value |-> PyInt(0)]

CacheIsOwn ==
    /\ [](\A id \in 1..Len(heap) :
            /\ heap[id].accesses = 0 => heap[id].parses = 0 /\ heap[id].cache = None
            /\ heap[id].cache # None => heap[id].cache[1] = JsonLoads(heap[id].content).value
            /\ id \in DOMAIN reads =>
                  \A o \in reads[id] : o = OwnReading(heap[id].content))
    /\ [][\A id \in 1..Len(heap) :
            heap'[id].accesses = heap[id].accesses => heap'[id] = heap[id]]_vars

\* two records of the same message, each with its wrapper around the same
\* raw string: the first was read twice and the second once, and each parsed
\* once
CacheIsOwnWitness ==
    /\ Len(records) = 2
    /\ Len(heap) = 2
    /\ heap[1].content = ObjectX1
    /\ heap[2].content = ObjectX1
    /\ FieldsIn = <<StringField(NameAB, <<PyStr(ObjectX1)>>)>>
    /\ records[1][<<"a">>].map[<<"b">>] = PyRef(1)
    /\ records[2][<<"a">>].map[<<"b">>] = PyRef(2)
    /\ heap[1].accesses = 2
    /\ heap[1].parses = 1
    /\ heap[2].accesses = 1
    /\ heap[2].parses = 1
    /\ reads[2] = {OwnReading(ObjectX1)}

====
